---- MODULE Spec2Model ----
(***************************************************************************)
(* CIDR-Sensei: expansion of CIDR blocks into addresses.                   *)
(* Model of the current variant (src/main.go lines 282-716): parseCIDRList,*)
(* the sequential expander cidrToIPsBinarySearch, the interval tree and    *)
(* the parallel engine cidrToIPsParallel with its workers, closer          *)
(* goroutine and collector.                                                *)
(*                                                                         *)
(* Addresses are unsigned integers of AddrBits bits (uint32 in the source, *)
(* scaled down); every arithmetic step on them is taken modulo 2^AddrBits. *)
(***************************************************************************)
EXTENDS Integers, Sequences, FiniteSets, Bags, TLC

\* ---------------------------------------------------------------- bounds
AddrBits == 2          \* width of an address (32 in the source)
MaxRanges == 2         \* longest CIDR list given to the sequential expander
MaxParAddrs == 3       \* most addresses spanned by a list given to the parallel engine
MaxWorkers == 2        \* largest concurrency
ipChanCap == 2         \* capacity of ipChan (1000 in the source)
MaxTreeRanges == 3     \* most intervals inserted into a tree in LookupSpec

Mod == 2 ^ AddrBits
MaxAddr == Mod - 1
Addrs == 0 .. MaxAddr
Nil == 0

\* ------------------------------------------------------- bit operations
RECURSIVE BitOr(_, _)
BitOr(a, b) ==
  IF a = 0 THEN b
  ELSE IF b = 0 THEN a
  ELSE (IF (a % 2 = 1) \/ (b % 2 = 1) THEN 1 ELSE 0) + 2 * BitOr(a \div 2, b \div 2)

BitNot(a) == MaxAddr - a

RECURSIVE BitAnd(_, _)
BitAnd(a, b) ==
  IF a = 0 \/ b = 0 THEN 0
  ELSE (IF (a % 2 = 1) /\ (b % 2 = 1) THEN 1 ELSE 0) + 2 * BitAnd(a \div 2, b \div 2)

\* net.CIDRMask(prefix, AddrBits) as an integer: prefix ones, then zeros
CIDRMask(prefix) == Mod - 2 ^ (AddrBits - prefix)

\* ------------------------------------------------------------ the input
\* a CIDR block as written: the address before the slash and the prefix length
Blocks == [addr : Addrs, prefix : 0 .. AddrBits]

SeqsUpTo(S, n) == UNION {[1 .. k -> S] : k \in 1 .. n}

\* ------------------------------------------------------- parseCIDRList
\* an IP address or mask as net.IP holds it: four bytes, most significant first
IPBytes(n) ==
  << (n \div 16777216) % 256, (n \div 65536) % 256, (n \div 256) % 256, n % 256 >>

\* net.ParseCIDR: the address as written (ip) and the mask of the network
ParseCIDR(b) == [ip |-> IPBytes(b.addr), mask |-> IPBytes(CIDRMask(b.prefix))]

\* binary.BigEndian.Uint32 of the four bytes, in the address width
ipToUint(ip) == (((ip[1] * 256 + ip[2]) * 256 + ip[3]) * 256 + ip[4]) % Mod

\* the loop body of parseCIDRList: start comes from the written address ip,
\* not from ipNet.IP
ParseBlock(b) ==
  LET p     == ParseCIDR(b)
      start == ipToUint(p.ip)
      end   == BitOr(start, BitNot(ipToUint(p.mask)))
  IN  [start |-> start, end |-> end, length |-> (end - start + 1) % Mod]

parseCIDRList(list) == [k \in 1 .. Len(list) |-> ParseBlock(list[k])]

\* net.ParseCIDR's error result: an entry is written address/prefix, and the
\* prefix length must not exceed the address width (a /33 is refused)
ValidCIDR(b) == b.prefix \in 0 .. AddrBits

\* the loop of parseCIDRList that keeps the valid entries met before an invalid one
RECURSIVE parseLoop_KeepsValid(_, _, _)
parseLoop_KeepsValid(list, k, acc) ==
  IF k > Len(list) THEN [ranges |-> acc, err |-> << >>]
  ELSE IF ~ValidCIDR(list[k]) THEN [ranges |-> acc, err |-> << list[k] >>]
  ELSE parseLoop_KeepsValid(list, k + 1, Append(acc, ParseBlock(list[k])))

\* the loop of parseCIDRList with both results: entry k is parsed; on an
\* error the function returns nil and an error carrying the entry's text,
\* otherwise the range is appended and the loop goes on.  err is << >> for nil
RECURSIVE parseLoop(_, _, _)
parseLoop(list, k, acc) ==
  IF k > Len(list) THEN [ranges |-> acc, err |-> << >>]
  ELSE IF ~ValidCIDR(list[k]) THEN [ranges |-> << >>, err |-> << list[k] >>]
  ELSE parseLoop(list, k + 1, Append(acc, ParseBlock(list[k])))

parseCIDRListResult(list) == parseLoop(list, 1, << >>)

\* -------------------------------------------------------------- uint2ip
\* uint2ip(ip).String(): the four big-endian bytes of ip printed in decimal
\* and joined by dots; the text is represented by its four decimal fields
uint2ip(ip) == IPBytes(ip)

\* ----------------------------------------------------------- sort.Slice
\* sort.Slice(s, less by start) on a slice of at most 12 elements is an
\* insertion sort: element k sinks while it is less than its predecessor
RECURSIVE Sink(_, _)
Sink(s, j) ==
  IF j > 1 /\ s[j].start < s[j - 1].start
  THEN Sink([s EXCEPT ![j] = s[j - 1], ![j - 1] = s[j]], j - 1)
  ELSE s

RECURSIVE InsertionSort(_, _)
InsertionSort(s, k) == IF k > Len(s) THEN s ELSE InsertionSort(Sink(s, k), k + 1)

SortByStart(s) == InsertionSort(s, 2)

\* ---------------------------------------------------------- sort.Search
\* sort.Search(len(ranges), func(j) ranges[j].end >= ip): binary search on
\* the 0-based half-open index window [i, j)
RECURSIVE SearchLoop(_, _, _, _)
SearchLoop(ranges, ip, i, j) ==
  IF i < j
  THEN LET h == (i + j) \div 2
       IN  IF ~(ranges[h + 1].end >= ip)
           THEN SearchLoop(ranges, ip, h + 1, j)
           ELSE SearchLoop(ranges, ip, i, h)
  ELSE i

SortSearch(ranges, ip) == SearchLoop(ranges, ip, 0, Len(ranges))

\* the membership test of the binary-search lookup
BinarySearchHit(ranges, ip) ==
  LET idx == SortSearch(ranges, ip)
  IN  idx < Len(ranges) /\ ranges[idx + 1].start <= ip

\* -------------------------------------------------------- interval tree
\* a tree is the sequence of its linked nodes; node 1 is the root, Nil (0)
\* is the nil pointer
NewNode(start, end, cidr) ==
  [start |-> start, end |-> end, left |-> Nil, right |-> Nil, cidr |-> cidr]

\* intervalNode.insert choosing the side by the start of the new interval alone
RECURSIVE nodeInsert_StartOnly(_, _, _)
nodeInsert_StartOnly(nodes, n, newNode) ==
  IF newNode.start < nodes[n].start
  THEN IF nodes[n].left = Nil
       THEN [err |-> FALSE,
             nodes |-> Append([nodes EXCEPT ![n].left = Len(nodes) + 1], newNode)]
       ELSE nodeInsert_StartOnly(nodes, nodes[n].left, newNode)
  ELSE IF newNode.start > nodes[n].end
  THEN IF nodes[n].right = Nil
       THEN [err |-> FALSE,
             nodes |-> Append([nodes EXCEPT ![n].right = Len(nodes) + 1], newNode)]
       ELSE nodeInsert_StartOnly(nodes, nodes[n].right, newNode)
  ELSE [err |-> TRUE, nodes |-> nodes]

RECURSIVE nodeInsert(_, _, _)
nodeInsert(nodes, n, newNode) ==
  IF newNode.end < nodes[n].start
  THEN IF nodes[n].left = Nil
       THEN [err |-> FALSE,
             nodes |-> Append([nodes EXCEPT ![n].left = Len(nodes) + 1], newNode)]
       ELSE nodeInsert(nodes, nodes[n].left, newNode)
  ELSE IF newNode.start > nodes[n].end
  THEN IF nodes[n].right = Nil
       THEN [err |-> FALSE,
             nodes |-> Append([nodes EXCEPT ![n].right = Len(nodes) + 1], newNode)]
       ELSE nodeInsert(nodes, nodes[n].right, newNode)
  ELSE [err |-> TRUE, nodes |-> nodes]

\* intervalTree.Insert returning nil whatever insert returned
TreeInsert_DropsError(nodes, start, end, cidr) ==
  IF Len(nodes) = 0
  THEN [err |-> FALSE, nodes |-> << NewNode(start, end, cidr) >>]
  ELSE [err |-> FALSE, nodes |-> nodeInsert(nodes, 1, NewNode(start, end, cidr)).nodes]

TreeInsert(nodes, start, end, cidr) ==
  IF Len(nodes) = 0
  THEN [err |-> FALSE, nodes |-> << NewNode(start, end, cidr) >>]
  ELSE nodeInsert(nodes, 1, NewNode(start, end, cidr))

\* a *CIDRRange result is << >> for nil and << r >> for a pointer to r

\* intervalNode.search with the end of the interval taken as exclusive
RECURSIVE nodeSearch_EndExclusive(_, _, _)
nodeSearch_EndExclusive(nodes, n, ip) ==
  IF n = Nil THEN << >>
  ELSE IF ip < nodes[n].start THEN nodeSearch_EndExclusive(nodes, nodes[n].left, ip)
  ELSE IF ip >= nodes[n].end THEN nodeSearch_EndExclusive(nodes, nodes[n].right, ip)
  ELSE << nodes[n].cidr >>

RECURSIVE nodeSearch(_, _, _)
nodeSearch(nodes, n, ip) ==
  IF n = Nil THEN << >>
  ELSE IF ip < nodes[n].start THEN nodeSearch(nodes, nodes[n].left, ip)
  ELSE IF ip > nodes[n].end THEN nodeSearch(nodes, nodes[n].right, ip)
  ELSE << nodes[n].cidr >>

TreeSearch(nodes, ip) == nodeSearch(nodes, IF Len(nodes) = 0 THEN Nil ELSE 1, ip)

\* buildIntervalTree: inserts every range in list order; a failed Insert is
\* printed and otherwise ignored, and the tree is returned in any case
RECURSIVE BuildFrom(_, _, _)
BuildFrom(nodes, ranges, k) ==
  IF k > Len(ranges) THEN nodes
  ELSE BuildFrom(TreeInsert(nodes, ranges[k].start, ranges[k].end, ranges[k]).nodes,
                 ranges, k + 1)

buildIntervalTree(ranges) == BuildFrom(<< >>, ranges, 1)

\* every node's cidr is &cidr, the address of the loop variable.  When the
\* loop has a single variable, all nodes point at it and read the value it
\* holds now; a node's cidr field is the value its pointer reads
Retag(nodes, cidr) == [n \in 1 .. Len(nodes) |-> [nodes[n] EXCEPT !.cidr = cidr]]

\* buildIntervalTree with one loop variable: after the loop it holds the
\* last range of the slice
buildIntervalTreeShared(ranges) ==
  IF ranges = << >> THEN << >>
  ELSE Retag(buildIntervalTree(ranges), ranges[Len(ranges)])

\* ================================================================ state
VARIABLES
  cidrList,          \* the CIDR blocks of the -cidr flag, as written
  cidrRanges,        \* main's cidrRanges slice (shared backing array)
  parallel,          \* config.Parallel
  pc,                \* position of the main goroutine
  sortedCIDRRanges,  \* cidrToIPsBinarySearch: the sorted copy
  rIdx,              \* cidrToIPsBinarySearch: index of the outer loop (1-based)
  i,                 \* cidrToIPsBinarySearch: the inner loop counter (uint32)
  ips,               \* the ips slice of the running expander
  algorithm,         \* cidrToIPsParallel: algorithm argument
  concurrency,       \* cidrToIPsParallel: concurrency argument
  ctxDone,           \* whether ctx.Done() is closed
  tree,              \* the interval tree (sequence of linked nodes)
  ipChan,            \* buffered items of ipChan
  ipChanClosed,      \* close(ipChan) has run
  errChan,           \* buffered items of errChan (capacity 1)
  errChanClosed,     \* close(errChan) has run
  started,           \* number of workers started by the spawn loop
  wg,                \* the WaitGroup counter
  wk,                \* per worker: pc, index into cidrRanges, loop counter ip
  ret,               \* what cidrToIPsParallel returned
  sentAfterCancel,   \* per worker: addresses sent since ctx was cancelled
  lastInsert,        \* LookupSpec: number of Insert calls made, outcome of the last
  lookup,            \* LookupSpec: the last address looked up and both answers
  exit,              \* main: whether os.Exit(1) was called, and the error printed
  sem,               \* legacy: number of tokens in semaphoreChan
  lg,                \* legacy: the goroutine of each range, its position and counter i
  ipPool,            \* legacy: the buffers sync.Pool holds
  loopVarShared      \* build: TRUE when a range loop has one variable for all its
                     \* iterations (Go 1.16 to 1.21), FALSE when one per iteration

vars == << cidrList, cidrRanges, parallel, pc, sortedCIDRRanges, rIdx, i, ips, algorithm,
           concurrency, ctxDone, tree, ipChan, ipChanClosed, errChan,
           errChanClosed, started, wg, wk, ret, sentAfterCancel, lastInsert, lookup,
           exit, sem, lg, ipPool, loopVarShared >>

seqVars == << sortedCIDRRanges, rIdx, i >>
parVars == << algorithm, concurrency, ctxDone, tree, ipChan, ipChanClosed, errChan,
              errChanClosed, started, wg, wk, ret, sentAfterCancel >>

lookVars == << lastInsert, lookup >>
mainVars == << exit >>
legVars == << sem, lg, ipPool >>
buildVars == << loopVarShared >>

Workers == 1 .. MaxWorkers
NoRet == [returned |-> FALSE, ips |-> << >>, err |-> "nil"]
IdleWorker == [pc |-> "idle", idx |-> 0, ip |-> 0]
NoErr == [msg |-> "", entry |-> << >>]
NotExited == [done |-> FALSE, code |-> 0, err |-> NoErr]

\* the longest ips the model lets the sequential expander build; above every
\* result of a terminating run (a loop that wraps around never stops appending)
MaxSeqOut == MaxRanges * Mod + 1

\* main: nothing parsed, nothing running
InitState ==
  /\ exit = NotExited
  /\ sem = 0
  /\ lg = << >>
  /\ ipPool = {}
  /\ sortedCIDRRanges = << >>
  /\ rIdx = 0
  /\ i = 0
  /\ ips = << >>
  /\ ctxDone = FALSE
  /\ tree = << >>
  /\ ipChan = << >>
  /\ ipChanClosed = FALSE
  /\ errChan = << >>
  /\ errChanClosed = FALSE
  /\ started = 0
  /\ wg = 0
  /\ wk = [w \in Workers |-> IdleWorker]
  /\ ret = NoRet
  /\ sentAfterCancel = [w \in Workers |-> 0]
  /\ lastInsert = [k |-> 0, err |-> FALSE]
  /\ lookup = [done |-> FALSE, ip |-> 0, bs |-> FALSE, tree |-> FALSE]

\* the state after construction, before main parses the list
InitCommon ==
  /\ pc = "parse"
  /\ InitState

\* ------------------------------------------------------ sequential mode
\* main, config.Parallel = false
Init ==
  /\ InitCommon
  /\ parallel = FALSE
  /\ cidrList \in SeqsUpTo(Blocks, MaxRanges)
  /\ cidrRanges = << >>
  /\ algorithm = "binary-search"
  /\ concurrency = 1
  /\ loopVarShared = FALSE

\* main: cidrRanges, err := parseCIDRList(...), every entry valid
ParseCIDRList ==
  /\ pc = "parse"
  /\ parseCIDRListResult(cidrList).err = << >>
  /\ cidrRanges' = parseCIDRList(cidrList)
  /\ pc' = "call"
  /\ UNCHANGED << cidrList, parallel, seqVars, ips, parVars, lookVars, mainVars, legVars, buildVars >>

\* cidrToIPsBinarySearch up to the outer loop: copy, sort, enter the first range.
\* main calls it when config.Parallel is false; the comparison run of ParSpec
\* calls it on the same slice after cidrToIPsParallel has returned
SeqSort ==
  /\ \/ pc = "call" /\ ~parallel
     \/ pc = "parDone"
  /\ LET sorted == SortByStart(cidrRanges)
     IN  /\ sortedCIDRRanges' = sorted
         /\ ips' = << >>
         /\ rIdx' = 1
         /\ i' = sorted[1].start
         /\ pc' = "seqLoop"
  /\ UNCHANGED << cidrList, cidrRanges, parallel, parVars, lookVars, mainVars, legVars, buildVars >>

\* one iteration of the inner loop: i <= cidrRange.end holds, the body runs, i++
SeqIter ==
  /\ pc = "seqLoop"
  /\ i <= sortedCIDRRanges[rIdx].end
  /\ IF BinarySearchHit(sortedCIDRRanges, i)
     THEN /\ Len(ips) < MaxSeqOut
          /\ ips' = Append(ips, uint2ip(i))
     ELSE ips' = ips
  /\ i' = (i + 1) % Mod
  /\ UNCHANGED << cidrList, cidrRanges, parallel, pc, sortedCIDRRanges, rIdx, parVars, lookVars, mainVars, legVars, buildVars >>

\* the inner loop's exit (i > cidrRange.end): next range, or return ips
SeqNextRange ==
  /\ pc = "seqLoop"
  /\ ~(i <= sortedCIDRRanges[rIdx].end)
  /\ IF rIdx < Len(sortedCIDRRanges)
     THEN /\ rIdx' = rIdx + 1
          /\ i' = sortedCIDRRanges[rIdx + 1].start
          /\ pc' = "seqLoop"
     ELSE /\ UNCHANGED << rIdx, i >>
          /\ pc' = "done"
  /\ UNCHANGED << cidrList, cidrRanges, parallel, sortedCIDRRanges, ips, parVars, lookVars, mainVars, legVars, buildVars >>

Next == ParseCIDRList \/ SeqSort \/ SeqIter \/ SeqNextRange

Spec == Init /\ [][Next]_vars

\* -------------------------------------------------------- parallel mode
\* number of addresses a range list spans, range by range
RECURSIVE TotalAddrs(_)
TotalAddrs(rs) ==
  IF rs = << >> THEN 0 ELSE (Head(rs).end - Head(rs).start + 1) + TotalAddrs(Tail(rs))

\* blocks written with their network address (no host bit set)
NetBlocks == {b \in Blocks : BitAnd(b.addr, BitNot(CIDRMask(b.prefix))) = 0}

ParLists == {l \in SeqsUpTo(NetBlocks, MaxRanges) : TotalAddrs(parseCIDRList(l)) <= MaxParAddrs}

Algorithms == {"binary-search", "interval-tree"}

\* main, config.Parallel = true
ParInit ==
  /\ InitCommon
  /\ parallel = TRUE
  /\ cidrList \in ParLists
  /\ cidrRanges = << >>
  /\ algorithm \in Algorithms
  /\ concurrency \in 1 .. MaxWorkers
  /\ loopVarShared \in IF algorithm = "interval-tree" THEN BOOLEAN ELSE {FALSE}

\* the signal handler of signal.NotifyContext cancels ctx, at any moment
\* while cidrToIPsParallel runs
Cancel ==
  /\ pc \in {"call", "spawn", "collect", "checkErr"}
  /\ ~ctxDone
  /\ ctxDone' = TRUE
  /\ UNCHANGED << cidrList, cidrRanges, parallel, pc, seqVars, ips, algorithm, concurrency,
                  tree, ipChan, ipChanClosed, errChan, errChanClosed, started, wg, wk,
                  ret, sentAfterCancel, lookVars, mainVars, legVars, buildVars >>

\* getProcessFunc handing out the processing function without building
\* the tree or sorting the slice
GetProcessFunc_BuildsNothing ==
  /\ pc = "call" /\ parallel
  /\ ips' = << >>
  /\ pc' = "spawn"
  /\ UNCHANGED << cidrList, cidrRanges, parallel, seqVars, algorithm, concurrency, ctxDone,
                  tree, ipChan, ipChanClosed, errChan, errChanClosed, started, wg, wk, ret,
                  sentAfterCancel, lookVars, mainVars, legVars, buildVars >>

\* cidrToIPsParallel up to the spawn loop: make the channels, getProcessFunc.
\* interval-tree builds the tree, binary-search sorts the caller's slice in
\* place, any other algorithm returns the error
GetProcessFunc ==
  /\ pc = "call" /\ parallel
  /\ ips' = << >>
  /\ IF algorithm = "interval-tree"
     THEN /\ tree' = IF loopVarShared THEN buildIntervalTreeShared(cidrRanges)
                                       ELSE buildIntervalTree(cidrRanges)
          /\ pc' = "spawn"
          /\ UNCHANGED << cidrRanges, ret >>
     ELSE IF algorithm = "binary-search"
     THEN /\ cidrRanges' = SortByStart(cidrRanges)
          /\ pc' = "spawn"
          /\ UNCHANGED << tree, ret >>
     ELSE /\ ret' = [returned |-> TRUE, ips |-> << >>, err |-> "unsupported algorithm"]
          /\ pc' = "parDone"
          /\ UNCHANGED << cidrRanges, tree >>
  /\ UNCHANGED << cidrList, parallel, seqVars, algorithm, concurrency, ctxDone, ipChan,
                  ipChanClosed, errChan, errChanClosed, started, wg, wk,
                  sentAfterCancel, lookVars, mainVars, legVars, buildVars >>

\* one round of the spawn loop: wg.Add(1); go worker(...)
StartWorker ==
  /\ pc = "spawn"
  /\ started < concurrency
  /\ started' = started + 1
  /\ wg' = wg + 1
  /\ wk' = [wk EXCEPT ![started + 1] = [pc |-> "range", idx |-> 1, ip |-> 0]]
  /\ UNCHANGED << cidrList, cidrRanges, parallel, pc, seqVars, ips, algorithm, concurrency,
                  ctxDone, tree, ipChan, ipChanClosed, errChan, errChanClosed, ret,
                  sentAfterCancel, lookVars, mainVars, legVars, buildVars >>

\* the spawn loop ends; the closer goroutine is started and main enters the
\* collecting loop
StartCloser ==
  /\ pc = "spawn"
  /\ ~(started < concurrency)
  /\ pc' = "collect"
  /\ UNCHANGED << cidrList, cidrRanges, parallel, seqVars, ips, parVars, lookVars, mainVars, legVars, buildVars >>

CloserStarted == parallel /\ pc \in {"collect", "checkErr", "parDone", "seqLoop", "done"}

\* the closer without its wg.Wait(): closes ipChan as soon as it runs
CloseIpChan_NoWait ==
  /\ CloserStarted
  /\ ~ipChanClosed
  /\ ipChanClosed' = TRUE
  /\ UNCHANGED << cidrList, cidrRanges, parallel, pc, seqVars, ips, algorithm, concurrency,
                  ctxDone, tree, ipChan, errChan, errChanClosed, started, wg, wk, ret,
                  sentAfterCancel, lookVars, mainVars, legVars, buildVars >>

\* closer goroutine: wg.Wait() returns, close(ipChan)
CloseIpChan ==
  /\ CloserStarted
  /\ wg = 0
  /\ ~ipChanClosed
  /\ ipChanClosed' = TRUE
  /\ UNCHANGED << cidrList, cidrRanges, parallel, pc, seqVars, ips, algorithm, concurrency,
                  ctxDone, tree, ipChan, errChan, errChanClosed, started, wg, wk, ret,
                  sentAfterCancel, lookVars, mainVars, legVars, buildVars >>

\* closer goroutine: close(errChan)
CloseErrChan ==
  /\ ipChanClosed
  /\ ~errChanClosed
  /\ errChanClosed' = TRUE
  /\ UNCHANGED << cidrList, cidrRanges, parallel, pc, seqVars, ips, algorithm, concurrency,
                  ctxDone, tree, ipChan, ipChanClosed, errChan, started, wg, wk, ret,
                  sentAfterCancel, lookVars, mainVars, legVars, buildVars >>

\* collector: one round of `for ip := range ipChan { ips = append(ips, ip) }`
Collect ==
  /\ pc = "collect"
  /\ ipChan # << >>
  /\ ips' = Append(ips, Head(ipChan))
  /\ ipChan' = Tail(ipChan)
  /\ UNCHANGED << cidrList, cidrRanges, parallel, pc, seqVars, algorithm, concurrency,
                  ctxDone, tree, ipChanClosed, errChan, errChanClosed, started, wg, wk,
                  ret, sentAfterCancel, lookVars, mainVars, legVars, buildVars >>

\* collector: ipChan is closed and drained, the range loop ends
CollectEnd ==
  /\ pc = "collect"
  /\ ipChan = << >>
  /\ ipChanClosed
  /\ pc' = "checkErr"
  /\ UNCHANGED << cidrList, cidrRanges, parallel, seqVars, ips, parVars, lookVars, mainVars, legVars, buildVars >>

\* the final check returning the collected list together with the error
CheckErr_KeepsIps ==
  /\ pc = "checkErr"
  /\ errChan # << >> \/ errChanClosed
  /\ IF errChan # << >>
     THEN /\ ret' = [returned |-> TRUE, ips |-> ips, err |-> Head(errChan)]
          /\ errChan' = Tail(errChan)
     ELSE /\ ret' = [returned |-> TRUE, ips |-> ips, err |-> "nil"]
          /\ errChan' = errChan
  /\ pc' = "parDone"
  /\ UNCHANGED << cidrList, cidrRanges, parallel, seqVars, ips, algorithm, concurrency,
                  ctxDone, tree, ipChan, ipChanClosed, errChanClosed, started, wg, wk,
                  sentAfterCancel, lookVars, mainVars, legVars, buildVars >>

\* `if err, ok := <-errChan; ok { return nil, err }; return ips, nil`:
\* the receive waits for an item or for the close
CheckErr ==
  /\ pc = "checkErr"
  /\ errChan # << >> \/ errChanClosed
  /\ IF errChan # << >>
     THEN /\ ret' = [returned |-> TRUE, ips |-> << >>, err |-> Head(errChan)]
          /\ errChan' = Tail(errChan)
     ELSE /\ ret' = [returned |-> TRUE, ips |-> ips, err |-> "nil"]
          /\ errChan' = errChan
  /\ pc' = "parDone"
  /\ UNCHANGED << cidrList, cidrRanges, parallel, seqVars, ips, algorithm, concurrency,
                  ctxDone, tree, ipChan, ipChanClosed, errChanClosed, started, wg, wk,
                  sentAfterCancel, lookVars, mainVars, legVars, buildVars >>

\* ProcessHit with the start test of processBinarySearch made strict
ProcessHit_StrictStart(ip) ==
  IF algorithm = "interval-tree"
  THEN TreeSearch(tree, ip) # << >>
  ELSE LET idx == SortSearch(cidrRanges, ip)
       IN  idx < Len(cidrRanges) /\ cidrRanges[idx + 1].start < ip

\* the lookup of the processing function the worker was given
ProcessHit(ip) ==
  IF algorithm = "interval-tree"
  THEN TreeSearch(tree, ip) # << >>
  ELSE BinarySearchHit(cidrRanges, ip)

\* worker: the range loop is exhausted, or ctx.Done() is ready in the select:
\* return, and the deferred wg.Done() runs
WorkerReturn(w) ==
  /\ wk[w].pc = "range"
  /\ wk[w].idx > Len(cidrRanges) \/ ctxDone
  /\ wk' = [wk EXCEPT ![w].pc = "done"]
  /\ wg' = wg - 1
  /\ UNCHANGED << cidrList, cidrRanges, parallel, pc, seqVars, ips, algorithm, concurrency,
                  ctxDone, tree, ipChan, ipChanClosed, errChan, errChanClosed, started,
                  ret, sentAfterCancel, lookVars, mainVars, legVars, buildVars >>

\* worker: the select takes default and calls processFunc(cidr, ipChan),
\* whose loop starts at cidr.start (start <= end, so the body runs)
WorkerProcess(w) ==
  /\ wk[w].pc = "range"
  /\ wk[w].idx <= Len(cidrRanges)
  /\ ~ctxDone
  /\ wk' = [wk EXCEPT ![w].pc = "loop", ![w].ip = cidrRanges[wk[w].idx].start]
  /\ UNCHANGED << cidrList, cidrRanges, parallel, pc, seqVars, ips, algorithm, concurrency,
                  ctxDone, tree, ipChan, ipChanClosed, errChan, errChanClosed, started,
                  wg, ret, sentAfterCancel, lookVars, mainVars, legVars, buildVars >>

\* processFunc: one iteration of `for ip := cidr.start; ip <= cidr.end; ip++`:
\* on a hit the send waits for room in ipChan; then ip++ and the loop
\* condition, which either keeps the worker in the loop or lets processFunc
\* return nil, so that the worker goes on to the next range.  A counter that
\* has wrapped around to 0 is still in the loop (pc "wrapped"): the loop then
\* repeats the same pass for ever; ParSpec follows it no further, FairParSpec
\* follows its counter (WorkerWrapped)
WorkerIter(w) ==
  /\ wk[w].pc = "loop"
  /\ IF ProcessHit(wk[w].ip)
     THEN /\ Len(ipChan) < ipChanCap
          /\ ipChan' = Append(ipChan, uint2ip(wk[w].ip))
          /\ sentAfterCancel' =
               IF ctxDone THEN [sentAfterCancel EXCEPT ![w] = @ + 1] ELSE sentAfterCancel
     ELSE UNCHANGED << ipChan, sentAfterCancel >>
  /\ LET next == (wk[w].ip + 1) % Mod
     IN  IF next <= cidrRanges[wk[w].idx].end
         THEN wk' = [wk EXCEPT ![w].ip = next,
                               ![w].pc = IF next < wk[w].ip THEN "wrapped" ELSE "loop"]
         ELSE wk' = [wk EXCEPT ![w].ip = next, ![w].pc = "range", ![w].idx = wk[w].idx + 1]
  /\ UNCHANGED << cidrList, cidrRanges, parallel, pc, seqVars, ips, algorithm, concurrency,
                  ctxDone, tree, ipChanClosed, errChan, errChanClosed, started, wg, ret,
                  lookVars, mainVars, legVars, buildVars >>

\* processFunc after its counter has wrapped: cidr.end is the maximum address,
\* `ip <= cidr.end` holds for every ip and the loop goes round again without
\* end.  The model follows the counter; what these further passes send again
\* is not added to ipChan
WorkerWrapped(w) ==
  /\ wk[w].pc = "wrapped"
  /\ wk' = [wk EXCEPT ![w].ip = (wk[w].ip + 1) % Mod]
  /\ UNCHANGED << cidrList, cidrRanges, parallel, pc, seqVars, ips, algorithm, concurrency,
                  ctxDone, tree, ipChan, ipChanClosed, errChan, errChanClosed, started,
                  wg, ret, sentAfterCancel, lookVars, mainVars, legVars, buildVars >>

ParNext ==
  \/ ParseCIDRList
  \/ Cancel
  \/ GetProcessFunc
  \/ StartWorker
  \/ StartCloser
  \/ CloseIpChan
  \/ CloseErrChan
  \/ Collect
  \/ CollectEnd
  \/ CheckErr
  \/ \E w \in Workers : WorkerReturn(w)
  \/ \E w \in Workers : WorkerProcess(w)
  \/ \E w \in Workers : WorkerIter(w)
  \/ SeqSort
  \/ SeqIter
  \/ SeqNextRange

ParSpec == ParInit /\ [][ParNext]_vars

\* the Go scheduler runs every goroutine that can take a step: the main
\* goroutine, the closer and each worker; nothing obliges a signal to arrive
ParFairness ==
  /\ WF_vars(ParseCIDRList \/ GetProcessFunc \/ StartWorker \/ StartCloser
               \/ Collect \/ CollectEnd \/ CheckErr)
  /\ WF_vars(SeqSort \/ SeqIter \/ SeqNextRange)
  /\ WF_vars(CloseIpChan \/ CloseErrChan)
  /\ \A w \in Workers : WF_vars(WorkerReturn(w) \/ WorkerProcess(w) \/ WorkerIter(w)
                               \/ WorkerWrapped(w))

FairParNext == ParNext \/ \E w \in Workers : WorkerWrapped(w)

FairParSpec == ParInit /\ [][FairParNext]_vars /\ ParFairness

\* ------------------------------------- a processing function that fails
\* worker takes its processing function as a parameter; the two that
\* getProcessFunc builds always return nil.  ErrSpec runs the same engine with
\* a processing function that may also return an error from its loop
ProcErrors == {"error A", "error B"}

\* worker: processFunc returns err != nil; the select sends it on errChan if
\* the single slot is free and drops it otherwise; return, wg.Done()
WorkerFail(w) ==
  /\ wk[w].pc = "loop"
  /\ \E e \in ProcErrors :
        errChan' = IF Len(errChan) < 1 THEN Append(errChan, e) ELSE errChan
  /\ wk' = [wk EXCEPT ![w].pc = "failed"]
  /\ wg' = wg - 1
  /\ UNCHANGED << cidrList, cidrRanges, parallel, pc, seqVars, ips, algorithm, concurrency,
                  ctxDone, tree, ipChan, ipChanClosed, errChanClosed, started,
                  ret, sentAfterCancel, lookVars, mainVars, legVars, buildVars >>

ErrNext == ParNext \/ \E w \in Workers : WorkerFail(w)

ErrSpec == ParInit /\ [][ErrNext]_vars

\* ------------------------------------------- main: flags, parse, dispatch
defaultConcurrency == 100
defaultAlgorithm == "binary-search"

\* what can be written on the command line: entries whose prefix length may
\* be one too long, any algorithm text, any small concurrency
Entries == [addr : Addrs, prefix : 0 .. AddrBits + 1]
RawAlgorithms == Algorithms \cup {"", "bogus"}
RawConcurrency == -1 .. MaxWorkers

\* main before parseFlags; << >> is an absent or empty -cidr flag
MainInit ==
  /\ pc = "flags"
  /\ InitState
  /\ parallel \in BOOLEAN
  /\ cidrList \in SeqsUpTo(Entries, MaxRanges) \cup {<< >>}
  /\ cidrRanges = << >>
  /\ algorithm \in RawAlgorithms
  /\ concurrency \in RawConcurrency
  /\ loopVarShared \in IF parallel /\ algorithm = "interval-tree" THEN BOOLEAN ELSE {FALSE}

\* parseFlags coercing only negative concurrency values
ParseFlags_NegativeOnly ==
  /\ pc = "flags"
  /\ IF cidrList = << >>
     THEN /\ exit' = [done |-> TRUE, code |-> 1,
                      err |-> [msg |-> "the -cidr flag is required", entry |-> << >>]]
          /\ pc' = "exit1"
          /\ UNCHANGED << concurrency, algorithm >>
     ELSE /\ concurrency' = IF concurrency < 0 THEN defaultConcurrency ELSE concurrency
          /\ algorithm' = IF algorithm # "binary-search" /\ algorithm # "interval-tree"
                          THEN defaultAlgorithm ELSE algorithm
          /\ pc' = "parse"
          /\ UNCHANGED exit
  /\ UNCHANGED << cidrList, cidrRanges, parallel, seqVars, ips, ctxDone, tree, ipChan,
                  ipChanClosed, errChan, errChanClosed, started, wg, wk, ret,
                  sentAfterCancel, lookVars, legVars, buildVars >>

\* main: config, err := parseFlags(); an empty -cidr is an error and main
\* exits with 1; otherwise concurrency <= 0 and an unknown algorithm are
\* replaced by the defaults
ParseFlags ==
  /\ pc = "flags"
  /\ IF cidrList = << >>
     THEN /\ exit' = [done |-> TRUE, code |-> 1,
                      err |-> [msg |-> "the -cidr flag is required", entry |-> << >>]]
          /\ pc' = "exit1"
          /\ UNCHANGED << concurrency, algorithm >>
     ELSE /\ concurrency' = IF concurrency <= 0 THEN defaultConcurrency ELSE concurrency
          /\ algorithm' = IF algorithm # "binary-search" /\ algorithm # "interval-tree"
                          THEN defaultAlgorithm ELSE algorithm
          /\ pc' = "parse"
          /\ UNCHANGED exit
  /\ UNCHANGED << cidrList, cidrRanges, parallel, seqVars, ips, ctxDone, tree, ipChan,
                  ipChanClosed, errChan, errChanClosed, started, wg, wk, ret,
                  sentAfterCancel, lookVars, legVars, buildVars >>

\* main: parseCIDRList returned an error; print it, os.Exit(1)
ParseFail ==
  /\ pc = "parse"
  /\ LET r == parseCIDRListResult(cidrList)
     IN  /\ r.err # << >>
         /\ cidrRanges' = r.ranges
         /\ exit' = [done |-> TRUE, code |-> 1,
                     err |-> [msg |-> "error parsing CIDR", entry |-> r.err]]
  /\ pc' = "exit1"
  /\ UNCHANGED << cidrList, parallel, seqVars, ips, parVars, lookVars, legVars, buildVars >>

\* main up to the engine: the sequential expander runs to its end, the
\* parallel engine is entered (getProcessFunc) with the configuration
MainNext ==
  \/ ParseFlags
  \/ ParseCIDRList
  \/ ParseFail
  \/ GetProcessFunc
  \/ SeqSort
  \/ SeqIter
  \/ SeqNextRange

MainSpec == MainInit /\ [][MainNext]_vars

\* ------------------------------------------------- the lookup structures
\* closed intervals of the address space
Intervals == {r \in [start : Addrs, end : Addrs] : r.start <= r.end}

AsRange(r) == [start |-> r.start, end |-> r.end, length |-> (r.end - r.start + 1) % Mod]

\* a list of ranges, an empty tree; the ranges are inserted in list order and
\* then addresses are looked up in the tree and in the sorted slice
LookupInit ==
  /\ InitCommon
  /\ parallel = TRUE
  /\ \E l \in SeqsUpTo(Intervals, MaxTreeRanges) :
        cidrRanges = [k \in 1 .. Len(l) |-> AsRange(l[k])]
  /\ cidrList = << >>
  /\ algorithm = "interval-tree"
  /\ concurrency = 1
  /\ loopVarShared \in BOOLEAN

\* buildIntervalTree, one round of its loop: tree.Insert(cidr.start, cidr.end, &cidr)
Insert ==
  /\ lastInsert.k < Len(cidrRanges)
  /\ LET r   == cidrRanges[lastInsert.k + 1]
         res == TreeInsert(tree, r.start, r.end, r)
     IN  /\ tree' = IF loopVarShared THEN Retag(res.nodes, r) ELSE res.nodes
         /\ lastInsert' = [k |-> lastInsert.k + 1, err |-> res.err]
  /\ UNCHANGED << cidrList, cidrRanges, parallel, pc, seqVars, ips, algorithm, concurrency,
                  ctxDone, ipChan, ipChanClosed, errChan, errChanClosed, started, wg, wk,
                  ret, sentAfterCancel, lookup, mainVars, legVars, buildVars >>

\* the two membership tests for one address: tree.Search(ip) != nil
\* (processIntervalTree) and the sort.Search test over the slice sorted by
\* start (processBinarySearch)
Lookup ==
  /\ lastInsert.k = Len(cidrRanges)
  /\ \E ip \in Addrs :
        lookup' = [done |-> TRUE, ip |-> ip,
                   bs   |-> BinarySearchHit(SortByStart(cidrRanges), ip),
                   tree |-> TreeSearch(tree, ip) # << >>]
  /\ UNCHANGED << cidrList, cidrRanges, parallel, pc, seqVars, ips, parVars, lastInsert, mainVars, legVars, buildVars >>

LookupNext == Insert \/ Lookup

LookupSpec == LookupInit /\ [][LookupNext]_vars

\* ============================================== properties, sequential

\* the addresses start..end of a range, in order, as the expander prints them
RangeIPs(r) == [k \in 1 .. (r.end - r.start + 1) |-> uint2ip(r.start + k - 1)]

IsPrefix(s, t) == Len(s) <= Len(t) /\ \A k \in 1 .. Len(s) : s[k] = t[k]

Parsed == pc # "parse"
InSeq == pc \in {"seqLoop", "done"}

\* C3: the sequential expansion of one valid block alone produces every
\* address from start to end exactly once, end - start + 1 addresses in all:
\* what it has appended is always a prefix of start..end, and what it
\* returns is the whole of it.
C3_SingleBlockExact ==
  (Len(cidrList) = 1 /\ InSeq) =>
     /\ IsPrefix(ips, RangeIPs(cidrRanges[1]))
     /\ (pc = "done" => ips = RangeIPs(cidrRanges[1]))

\* C4: parseCIDRList gives every block address/prefix the range
\* start = address AND mask, end = start OR (NOT mask), with start <= end.
C4_StartIsMaskedBase ==
  Parsed =>
    \A k \in 1 .. Len(cidrList) :
      LET mask == CIDRMask(cidrList[k].prefix)
          r    == cidrRanges[k]
      IN  /\ r.start = BitAnd(cidrList[k].addr, mask)
          /\ r.end = BitOr(r.start, BitNot(mask))
          /\ r.start <= r.end

\* C5: the length field of every parsed range is the number of its
\* addresses, end - start + 1, and is at least 1.
C5_LengthIsCount ==
  Parsed =>
    \A k \in 1 .. Len(cidrRanges) :
      /\ cidrRanges[k].length = cidrRanges[k].end - cidrRanges[k].start + 1
      /\ cidrRanges[k].length >= 1

\* C8: the list sequential mode returns is strictly ascending in numeric
\* order, for every range list it accepts.
C8_StrictlyAscending ==
  pc = "done" =>
    \A k \in 1 .. Len(ips) - 1 : ipToUint(ips[k]) < ipToUint(ips[k + 1])

\* C9: the per-address loop reaches its exit: once the body has run for the
\* last address of the range (i = end), the loop condition i <= end is false
\* and the loop is left.
C9_LoopExitsAfterEnd ==
  [][(pc = "seqLoop" /\ i = sortedCIDRRanges[rIdx].end)
       => (i' > sortedCIDRRanges[rIdx].end \/ pc' # "seqLoop" \/ rIdx' # rIdx)]_vars

\* ================================================ properties, parallel

Range(s) == {s[k] : k \in DOMAIN s}
BagOfSeq(s) == [x \in Range(s) |-> Cardinality({k \in DOMAIN s : s[k] = x})]

Disjoint(rs) ==
  \A a, b \in 1 .. Len(rs) :
    a # b => (rs[a].end < rs[b].start \/ rs[b].end < rs[a].start)

\* cidrToIPsParallel ran to completion, without cancellation, on pairwise
\* non-overlapping ranges, and the sequential expansion of the same list has
\* returned as well (its result is in ips)
BothReturned ==
  /\ parallel /\ pc = "done"
  /\ ret.returned /\ ret.err = "nil"
  /\ ~ctxDone
  /\ Disjoint(cidrRanges)

\* C1: for pairwise non-overlapping ranges, every concurrency and both
\* algorithms, the parallel engine returns the same multiset of addresses as
\* the sequential expansion: every contained address exactly once.
C1_SameMultiset == BothReturned => BagOfSeq(ret.ips) = BagOfSeq(ips)

\* C2: for pairwise non-overlapping ranges, every concurrency and both
\* algorithms, the set of addresses the parallel engine returns, run to
\* completion without cancellation, equals the set the sequential expansion
\* of the same list returns.
C2_SameSet == BothReturned => Range(ret.ips) = Range(ips)

\* C2 witness: a completed two-worker interval-tree run over two ranges and
\* the completed sequential run, both with addresses
C2_Witness ==
  /\ BothReturned
  /\ concurrency = MaxWorkers /\ algorithm = "interval-tree"
  /\ Len(cidrRanges) = 2
  /\ Len(ips) >= 2 /\ Len(ret.ips) >= 2

\* C6: with two overlapping ranges and the interval-tree algorithm, building
\* the lookup structure fails and cidrToIPsParallel returns that error: once
\* getProcessFunc has run, the call has returned an error, no worker was
\* started and no address was produced.
C6_OverlapFails ==
  (parallel /\ algorithm = "interval-tree" /\ pc \notin {"parse", "call"}
     /\ ~Disjoint(cidrRanges))
  => /\ ret.returned /\ ret.err # "nil" /\ ret.ips = << >>
     /\ started = 0
     /\ ipChan = << >>

\* C10: after the cancellation signal a worker stops at per-address
\* granularity: it sends at most the one address it was about to send,
\* however long the range it is enumerating.
C10_StopsWithinOneAddress == \A w \in Workers : sentAfterCancel[w] <= 1

\* every started worker has returned
AllWorkersDone == \A w \in Workers : w <= started => wk[w].pc \in {"done", "failed"}

\* C11: a cancelled parallel run never hangs: once cancellation is signalled,
\* under fair scheduling every worker exits, ipChan is closed, the collector's
\* loop ends and cidrToIPsParallel returns.
C11_CancelledRunReturns ==
  ctxDone ~> (ret.returned /\ ipChanClosed /\ AllWorkersDone)

\* ================================================== properties, lookup

Contains(rs, ip) == \E k \in 1 .. Len(rs) : rs[k].start <= ip /\ ip <= rs[k].end

\* C7: for pairwise disjoint ranges, inserted into the tree in any order, the
\* binary-search lookup and the interval-tree lookup give the same answer
\* for every address: a match exactly when some range contains the address.
C7_LookupsAgree ==
  (lookup.done /\ Disjoint(cidrRanges)) =>
     /\ lookup.bs = lookup.tree
     /\ lookup.bs = Contains(cidrRanges, lookup.ip)

\* C7 witness: three disjoint ranges inserted in an order that gives the root
\* a left and a right child, and an address of the last range found by both
C7_Witness ==
  /\ lookup.done /\ Disjoint(cidrRanges)
  /\ Len(cidrRanges) = MaxTreeRanges /\ Len(tree) = MaxTreeRanges
  /\ tree[1].left # Nil /\ tree[1].right # Nil
  /\ lookup.ip = cidrRanges[Len(cidrRanges)].end
  /\ lookup.bs /\ lookup.tree

\* ================================ legacy variant (src/unnamed/part_000)
\* ------------------------------------------------ texts and pooled buffers
Digits == << "0", "1", "2", "3", "4", "5", "6", "7", "8", "9" >>

\* the decimal text of one byte, as a sequence of characters
Decimal(n) ==
  IF n < 10 THEN << Digits[n + 1] >>
  ELSE IF n < 100 THEN << Digits[(n \div 10) + 1], Digits[(n % 10) + 1] >>
  ELSE << Digits[(n \div 100) + 1], Digits[((n \div 10) % 10) + 1], Digits[(n % 10) + 1] >>

\* net.IP.String() of a 4-byte address: the dotted-decimal text
IPString(ip) ==
  Decimal(ip[1]) \o << "." >> \o Decimal(ip[2]) \o << "." >> \o Decimal(ip[3])
    \o << "." >> \o Decimal(ip[4])

\* ipPool.New: make([]byte, 15), fifteen zero bytes
BufLen == 15
NUL == "NUL"
NewBuf == [k \in 1 .. BufLen |-> NUL]

\* copy(dst, src): the first min(len(dst), len(src)) bytes of dst are
\* overwritten, the others stay
copy(dst, src) == [k \in 1 .. Len(dst) |-> IF k <= Len(src) THEN src[k] ELSE dst[k]]

\* ----------------------------------------------------------- legacy parse
\* ip2uint(ipNet.IP): the network address, host bits cleared by net.ParseCIDR
LegParseBlock(b) ==
  LET mask  == ipToUint(ParseCIDR(b).mask)
      start == BitAnd(ipToUint(ParseCIDR(b).ip), mask)
      end   == BitOr(start, BitNot(mask))
  IN  [start |-> start, end |-> end, length |-> end - start]

legParseCIDRList(list) == [k \in 1 .. Len(list) |-> LegParseBlock(list[k])]

\* main of the legacy variant after flag.Parse: the flags as given
LegInit ==
  /\ pc = "legParse"
  /\ InitState
  /\ parallel \in BOOLEAN
  /\ cidrList \in SeqsUpTo(Blocks, MaxRanges)
  /\ cidrRanges = << >>
  /\ algorithm \in IF parallel THEN Algorithms ELSE {"binary-search"}
  /\ concurrency \in IF parallel THEN RawConcurrency ELSE {1}
  /\ loopVarShared \in IF algorithm = "interval-tree" THEN BOOLEAN ELSE {FALSE}

\* main: cidrRanges, err := parseCIDRList(cidrList), every entry valid
LegParse ==
  /\ pc = "legParse"
  /\ cidrRanges' = legParseCIDRList(cidrList)
  /\ pc' = "legCall"
  /\ UNCHANGED << cidrList, parallel, seqVars, ips, parVars, lookVars, mainVars, legVars, buildVars >>

\* ------------------------------------------------- legacy sequential mode
\* cidrToIPsBinarySearch up to the outer loop: copy, sort, enter the first
\* range with offset i = 0.  Called by cidrToIPs when parallel is false; the
\* comparison run calls it on the same slice after the parallel call returned
LegSeqSort ==
  /\ \/ pc = "legCall" /\ ~parallel
     \/ pc = "legParDone"
  /\ sortedCIDRRanges' = SortByStart(cidrRanges)
  /\ ips' = << >>
  /\ rIdx' = 1
  /\ i' = 0
  /\ pc' = "legSeqLoop"
  /\ UNCHANGED << cidrList, cidrRanges, parallel, parVars, lookVars, mainVars, legVars, buildVars >>

\* one iteration of `for i := uint32(0); i < uint32(cidrRange.length); i++`
LegSeqIter ==
  /\ pc = "legSeqLoop"
  /\ i < sortedCIDRRanges[rIdx].length % Mod
  /\ LET ip == uint2ip((sortedCIDRRanges[rIdx].start + i) % Mod)
     IN  ips' = IF BinarySearchHit(sortedCIDRRanges, ipToUint(ip))
                THEN Append(ips, IPString(ip)) ELSE ips
  /\ i' = (i + 1) % Mod
  /\ UNCHANGED << cidrList, cidrRanges, parallel, pc, sortedCIDRRanges, rIdx, parVars,
                  lookVars, mainVars, legVars, buildVars >>

\* the inner loop's condition fails: next range, or return ips, nil
LegSeqNextRange ==
  /\ pc = "legSeqLoop"
  /\ ~(i < sortedCIDRRanges[rIdx].length % Mod)
  /\ IF rIdx < Len(sortedCIDRRanges)
     THEN /\ rIdx' = rIdx + 1
          /\ i' = 0
          /\ pc' = pc
     ELSE /\ pc' = "legDone"
          /\ UNCHANGED << rIdx, i >>
  /\ UNCHANGED << cidrList, cidrRanges, parallel, sortedCIDRRanges, ips, parVars,
                  lookVars, mainVars, legVars, buildVars >>

\* ---------------------------------------------------- legacy interval tree
\* intervalTree.insert below node curr: the loop goes left when
\* end <= curr.start, right when start >= curr.end, and panics otherwise
RECURSIVE legInsertAt(_, _, _)
legInsertAt(nodes, curr, node) ==
  IF node.end <= nodes[curr].start
  THEN IF nodes[curr].left = Nil
       THEN [panic |-> FALSE,
             nodes |-> Append([nodes EXCEPT ![curr].left = Len(nodes) + 1], node)]
       ELSE legInsertAt(nodes, nodes[curr].left, node)
  ELSE IF node.start >= nodes[curr].end
  THEN IF nodes[curr].right = Nil
       THEN [panic |-> FALSE,
             nodes |-> Append([nodes EXCEPT ![curr].right = Len(nodes) + 1], node)]
       ELSE legInsertAt(nodes, nodes[curr].right, node)
  ELSE [panic |-> TRUE, nodes |-> nodes]

legInsert(nodes, start, end, cidr) ==
  IF Len(nodes) = 0
  THEN [panic |-> FALSE, nodes |-> << NewNode(start, end, cidr) >>]
  ELSE legInsertAt(nodes, 1, NewNode(start, end, cidr))

\* intervalTree.search: the loop from the root
RECURSIVE legSearchAt(_, _, _)
legSearchAt(nodes, curr, ip) ==
  IF curr = Nil THEN << >>
  ELSE IF ip < nodes[curr].start THEN legSearchAt(nodes, nodes[curr].left, ip)
  ELSE IF ip > nodes[curr].end THEN legSearchAt(nodes, nodes[curr].right, ip)
  ELSE << nodes[curr].cidr >>

legSearch(nodes, ip) == legSearchAt(nodes, IF Len(nodes) = 0 THEN Nil ELSE 1, ip)

\* the build loop of cidrToIPsParallelIntervalTree: every range is inserted
\* in slice order with &cidrRange; a panic ends the program
RECURSIVE legBuildFrom(_, _, _)
legBuildFrom(nodes, ranges, k) ==
  IF k > Len(ranges) THEN [panic |-> FALSE, nodes |-> nodes]
  ELSE LET res == legInsert(nodes, ranges[k].start, ranges[k].end, ranges[k])
       IN  IF res.panic THEN res ELSE legBuildFrom(res.nodes, ranges, k + 1)

\* --------------------------------------------------- legacy parallel mode
\* cidrToIPsParallelBinarySearch up to the collector's loop: make the
\* channels (a negative capacity panics), sort the caller's slice in place,
\* wg.Add(1) and start one goroutine per range, start the closer
LegCall ==
  /\ pc = "legCall" /\ parallel
  /\ algorithm # "interval-tree"
  /\ ips' = << >>
  /\ IF concurrency < 0
     THEN /\ pc' = "legPanic"
          /\ UNCHANGED << cidrRanges, wg, lg >>
     ELSE /\ cidrRanges' = SortByStart(cidrRanges)
          /\ wg' = Len(cidrRanges)
          /\ lg' = [g \in 1 .. Len(cidrRanges) |-> [pc |-> "acquire", i |-> 0]]
          /\ pc' = "legCollect"
  /\ UNCHANGED << cidrList, parallel, seqVars, algorithm, concurrency, ctxDone, tree, ipChan,
                  ipChanClosed, errChan, errChanClosed, started, ret, wk,
                  sentAfterCancel, lookVars, mainVars, sem, ipPool, buildVars >>

\* cidrToIPsParallelIntervalTree up to the collector's loop: make the
\* channels (a negative capacity panics), build the tree (an insert may
\* panic), wg.Add(1) and start one goroutine per range, start the closer
LegCallTree ==
  /\ pc = "legCall" /\ parallel
  /\ algorithm = "interval-tree"
  /\ ips' = << >>
  /\ IF concurrency < 0
     THEN /\ pc' = "legPanic"
          /\ UNCHANGED << tree, wg, lg >>
     ELSE LET res == legBuildFrom(<< >>, cidrRanges, 1)
          IN  IF res.panic
              THEN /\ pc' = "legPanicOverlap"
                   /\ tree' = res.nodes
                   /\ UNCHANGED << wg, lg >>
              ELSE /\ tree' = IF loopVarShared
                              THEN Retag(res.nodes, cidrRanges[Len(cidrRanges)])
                              ELSE res.nodes
                   /\ wg' = Len(cidrRanges)
                   /\ lg' = [g \in 1 .. Len(cidrRanges) |-> [pc |-> "acquire", i |-> 0]]
                   /\ pc' = "legCollect"
  /\ UNCHANGED << cidrList, cidrRanges, parallel, seqVars, algorithm, concurrency, ctxDone,
                  ipChan, ipChanClosed, errChan, errChanClosed, started, ret, wk,
                  sentAfterCancel, lookVars, mainVars, sem, ipPool, buildVars >>

\* goroutine g: `semaphoreChan <- struct{}{}` waits for room in the channel
LegAcquire(g) ==
  /\ pc = "legCollect"
  /\ lg[g].pc = "acquire"
  /\ sem < concurrency
  /\ sem' = sem + 1
  /\ lg' = [lg EXCEPT ![g].pc = "loop"]
  /\ UNCHANGED << cidrList, cidrRanges, parallel, pc, seqVars, ips, parVars, lookVars,
                  mainVars, ipPool, buildVars >>

\* the inner loop `for j := idx; j <= lastIndex; j++` of goroutine idx
\* (0-based) for address ip: whether it reaches the send
LegSends(ranges, idx, ip) ==
  LET lastIndex == SortSearch(ranges, ip) - 1
  IN  \E j \in idx .. lastIndex : ip <= ranges[j + 1].end

\* what ipPool.Get() may return: a buffer put back earlier, or a new one
PoolGet == ipPool \cup {NewBuf}

\* whether goroutine idx (0-based) sends address ip: tree.search(ip) != nil
\* in the interval-tree pipeline, the inner loop in the binary-search one
LegHit(idx, ip) ==
  IF algorithm = "interval-tree"
  THEN legSearch(tree, ip) # << >>
  ELSE LegSends(cidrRanges, idx, ip)

\* goroutine g: one iteration of `for i := uint32(0); i < uint32(cidr.length); i++`,
\* with the send on ipChan (which waits for room) when the inner loop reaches it
LegIter(g) ==
  /\ pc = "legCollect"
  /\ lg[g].pc = "loop"
  /\ lg[g].i < cidrRanges[g].length % Mod
  /\ LET ip == uint2ip((cidrRanges[g].start + lg[g].i) % Mod)
     IN  IF LegHit(g - 1, ipToUint(ip))
         THEN /\ Len(ipChan) < concurrency
              /\ \E ipBytes \in PoolGet :
                   /\ ipPool' = ipPool \ {ipBytes}
                   /\ ipChan' = Append(ipChan, copy(ipBytes, IPString(ip)))
         ELSE UNCHANGED << ipChan, ipPool >>
  /\ lg' = [lg EXCEPT ![g].i = (lg[g].i + 1) % Mod]
  /\ UNCHANGED << cidrList, cidrRanges, parallel, pc, seqVars, ips, algorithm, concurrency,
                  ctxDone, tree, ipChanClosed, errChan, errChanClosed, started, wg, wk,
                  ret, sentAfterCancel, lookVars, mainVars, sem, buildVars >>

\* goroutine g: the loop is over, `<-semaphoreChan`, deferred wg.Done()
LegRelease(g) ==
  /\ pc = "legCollect"
  /\ lg[g].pc = "loop"
  /\ ~(lg[g].i < cidrRanges[g].length % Mod)
  /\ sem' = sem - 1
  /\ wg' = wg - 1
  /\ lg' = [lg EXCEPT ![g].pc = "done"]
  /\ UNCHANGED << cidrList, cidrRanges, parallel, pc, seqVars, ips, algorithm, concurrency,
                  ctxDone, tree, ipChan, ipChanClosed, errChan, errChanClosed, started,
                  wk, ret, sentAfterCancel, lookVars, mainVars, ipPool, buildVars >>

\* closer goroutine: wg.Wait() returns, close(ipChan)
LegClose ==
  /\ pc = "legCollect"
  /\ wg = 0
  /\ ~ipChanClosed
  /\ ipChanClosed' = TRUE
  /\ UNCHANGED << cidrList, cidrRanges, parallel, pc, seqVars, ips, algorithm, concurrency,
                  ctxDone, tree, ipChan, errChan, errChanClosed, started, wg, wk, ret,
                  sentAfterCancel, lookVars, mainVars, legVars, buildVars >>

\* collector: one round of `for ipBytes := range ipChan`: string(ipBytes) is
\* appended, the buffer goes back to the pool
LegCollect ==
  /\ pc = "legCollect"
  /\ ipChan # << >>
  /\ ips' = Append(ips, Head(ipChan))
  /\ ipPool' = ipPool \cup {Head(ipChan)}
  /\ ipChan' = Tail(ipChan)
  /\ UNCHANGED << cidrList, cidrRanges, parallel, pc, seqVars, algorithm, concurrency,
                  ctxDone, tree, ipChanClosed, errChan, errChanClosed, started, wg, wk,
                  ret, sentAfterCancel, lookVars, mainVars, sem, lg, buildVars >>

\* collector: ipChan is closed and empty; the select finds errChan empty (no
\* goroutine ever sends on it) and returns ips, nil
LegCollectEnd ==
  /\ pc = "legCollect"
  /\ ipChan = << >> /\ ipChanClosed
  /\ ret' = IF errChan # << >>
            THEN [returned |-> TRUE, ips |-> << >>, err |-> Head(errChan)]
            ELSE [returned |-> TRUE, ips |-> ips, err |-> "nil"]
  /\ pc' = "legParDone"
  /\ UNCHANGED << cidrList, cidrRanges, parallel, seqVars, ips, algorithm, concurrency,
                  ctxDone, tree, ipChan, ipChanClosed, errChan, errChanClosed, started,
                  wg, wk, sentAfterCancel, lookVars, mainVars, legVars, buildVars >>

LegNext ==
  \/ LegParse
  \/ LegSeqSort
  \/ LegSeqIter
  \/ LegSeqNextRange
  \/ LegCall
  \/ LegCallTree
  \/ \E g \in 1 .. MaxRanges : g <= Len(lg) /\ (LegAcquire(g) \/ LegIter(g) \/ LegRelease(g))
  \/ LegClose
  \/ LegCollect
  \/ LegCollectEnd

LegacySpec == LegInit /\ [][LegNext]_vars

\* ======================================= properties, parallel (continued)

\* the outcome as the two results of cidrToIPsParallel tell it to the caller:
\* main treats a non-nil error as failure and anything else as the complete list
Outcome(r) == IF r.err # "nil" THEN "Failed" ELSE "Completed"

\* the dotted-decimal texts of the addresses the ranges contain
ExpectedIPs(rs) == {uint2ip(a) : a \in {x \in Addrs : Contains(rs, x)}}

\* C12: when cancellation is signalled during a parallel run, the call
\* returns every address the collector had received, each one a member of the
\* full expected result, and reports the outcome as Cancelled, distinct from
\* Completed and not an error.
C12_CancelledOutcome ==
  (parallel /\ pc = "parDone" /\ ctxDone) =>
     /\ ret.ips = ips
     /\ Range(ret.ips) \subseteq ExpectedIPs(cidrRanges)
     /\ Outcome(ret) = "Cancelled"

\* C13 (step part and whole): ipChan is closed once, only after every worker has finished (wg is
\* back to 0 after all were started); a closed channel stays closed and
\* nothing is sent on ipChan or errChan after its close; a call that
\* returns after running workers has closed ipChan.
C13_CloseStep ==
  /\ (~ipChanClosed /\ ipChanClosed') =>
        (started = concurrency /\ wg = 0 /\ AllWorkersDone)
  /\ ipChanClosed => (ipChanClosed' /\ Len(ipChan') <= Len(ipChan))
  /\ (~errChanClosed /\ errChanClosed') => (ipChanClosed /\ AllWorkersDone)
  /\ errChanClosed => (errChanClosed' /\ Len(errChan') <= Len(errChan))

C13_ClosedOnceAfterJoin ==
  /\ []((ret.returned /\ started > 0) => ipChanClosed)
  /\ [][C13_CloseStep]_vars

\* C13 witness: ipChan closed after MaxWorkers workers finished, one of them
\* stopped by the cancellation, with addresses still to be collected
C13_Witness ==
  /\ ipChanClosed /\ started = MaxWorkers /\ AllWorkersDone
  /\ ctxDone /\ ipChan # << >>

SomeFailed == \E w \in Workers : wk[w].pc = "failed"

\* C14: a worker's error report never blocks it and the first error is kept
\* (errChan holds at most one error and keeps it until the final check); once
\* ipChan is closed and drained the call returns that error and no list,
\* whatever was collected; with no error reported it returns the collected
\* list and a nil error.
C14_KeepStep ==
  errChan # << >> =>
    (errChan' = errChan \/ (pc = "checkErr" /\ ret'.err = Head(errChan)))

C14_ErrorReplacesResult ==
  /\ [](Len(errChan) <= 1)
  /\ []((parallel /\ pc = "parDone" /\ SomeFailed) =>
          (ret.err \in ProcErrors /\ ret.ips = << >>))
  /\ []((parallel /\ pc = "parDone" /\ ~SomeFailed) =>
          (ret.err = "nil" /\ ret.ips = ips))
  /\ [][C14_KeepStep]_vars

\* C14 witness: two workers failed with different errors after addresses had
\* been collected, and the call returned an error
C14_Witness ==
  /\ parallel /\ pc = "parDone"
  /\ \A w \in 1 .. 2 : wk[w].pc = "failed"
  /\ ips # << >>
  /\ ret.err = "error B"

\* C15: the engine holds a bounded number of produced addresses at any
\* moment, whatever the input spans: ipChan never holds more than its
\* capacity, and ipChan together with the collector's list never holds more
\* than the capacity plus one address per worker (concurrency).
C15_BoundedHeld ==
  (parallel /\ pc \in {"spawn", "collect", "checkErr"}) =>
     /\ Len(ipChan) <= ipChanCap
     /\ Len(ipChan) + Len(ips) <= ipChanCap + concurrency

\* ============================================== properties, main
HasInvalid(list) == \E k \in 1 .. Len(list) : ~ValidCIDR(list[k])

\* the first entry of the list that net.ParseCIDR refuses
FirstInvalid(list) ==
  list[CHOOSE k \in 1 .. Len(list) :
         ~ValidCIDR(list[k]) /\ \A j \in 1 .. k - 1 : ValidCIDR(list[j])]

\* C16: parsing is fail-fast: for a list with an invalid entry at any
\* position parseCIDRList returns an error naming that entry and no ranges at
\* all, and once main is past the parse it has exited with code 1 with that
\* error, holding no range, with no expansion started and no address produced.
C16_FailFast ==
  HasInvalid(cidrList) =>
    /\ parseCIDRListResult(cidrList) =
          [ranges |-> << >>, err |-> << FirstInvalid(cidrList) >>]
    /\ pc \notin {"flags", "parse"} =>
          /\ pc = "exit1"
          /\ exit.done /\ exit.code = 1
          /\ exit.err.entry = << FirstInvalid(cidrList) >>
          /\ cidrRanges = << >>
          /\ sortedCIDRRanges = << >> /\ ips = << >>
          /\ tree = << >> /\ started = 0 /\ ~ret.returned

\* C16 witness: main has exited on a list whose second entry is invalid
\* and whose first is valid
C16_Witness ==
  /\ pc = "exit1"
  /\ Len(cidrList) = 2
  /\ ValidCIDR(cidrList[1]) /\ ~ValidCIDR(cidrList[2])
  /\ exit.code = 1

\* C17 (step part and whole): parseFlags replaces a concurrency <= 0 by 100
\* and an algorithm other than binary-search and interval-tree by
\* binary-search, and leaves other values alone; so whenever main is past
\* parseFlags the configuration has concurrency > 0 and a supported
\* algorithm, and getProcessFunc never returns the unsupported-algorithm error.
C17_FlagStep ==
  (pc = "flags" /\ pc' = "parse") =>
    /\ concurrency' = IF concurrency <= 0 THEN defaultConcurrency ELSE concurrency
    /\ algorithm' = IF algorithm \in Algorithms THEN algorithm ELSE defaultAlgorithm

C17_ConfigValid ==
  /\ [](pc \notin {"flags", "exit1"} => (concurrency > 0 /\ algorithm \in Algorithms))
  /\ [](ret.err # "unsupported algorithm")
  /\ [][C17_FlagStep]_vars

\* C17 witness: the parallel engine was entered with the default
\* concurrency, which only the coercion can produce here, and built its tree
C17_Witness ==
  /\ pc = "spawn"
  /\ concurrency = defaultConcurrency
  /\ algorithm = "interval-tree"
  /\ tree # << >>

\* ============================================== properties, legacy
\* a returned string without the zero bytes of its buffer
TrimNUL(str) == SelectSeq(str, LAMBDA c : c # NUL)

AddrTexts(strs) == {TrimNUL(strs[k]) : k \in DOMAIN strs}

\* C18: in the legacy variant, for every list of pairwise non-overlapping
\* ranges and every concurrency >= 1, the parallel binary-search expansion
\* returns the same set of addresses as the sequential expansion of the
\* same list.
C18_LegacyParallelMatches ==
  (parallel /\ pc = "legDone" /\ concurrency >= 1 /\ Disjoint(cidrRanges)) =>
     AddrTexts(ret.ips) = AddrTexts(ips)

\* C19: the sequential expander produces the last address of every block;
\* in particular a single block of one address yields exactly that address.
C19_LastAddressProduced ==
  (~parallel /\ pc = "legDone") =>
     /\ \A k \in 1 .. Len(cidrRanges) :
          IPString(uint2ip(cidrRanges[k].end)) \in Range(ips)
     /\ (Len(cidrList) = 1 /\ cidrList[1].prefix = AddrBits) =>
          ips = << IPString(uint2ip(cidrList[1].addr)) >>

\* C20: the legacy parallel mode always runs with a positive number of
\* workers: once cidrToIPsParallelBinarySearch has been entered, concurrency
\* is > 0 (a value <= 0 having been replaced by defaultConcurrency), and no
\* goroutine waits on a semaphore that can never hold a token.
C20_LegacyPositiveWorkers ==
  (parallel /\ pc \in {"legCollect", "legPanic", "legParDone", "legSeqLoop", "legDone"}) =>
     /\ concurrency > 0
     /\ pc # "legPanic"

\* =================================== properties, parallel (work sharing)
\* worker w has called processFunc on range k of the slice
Entered(w, k) ==
  \/ wk[w].idx > k
  \/ wk[w].idx = k /\ wk[w].pc \in {"loop", "wrapped", "failed"}

\* C21: the ranges are shared out as units of work: no range is enumerated
\* by two workers, and after a complete run (no cancellation) every range
\* has been enumerated by exactly one worker.
C21_RangeClaimedOnce ==
  (parallel /\ pc \in {"spawn", "collect", "checkErr", "parDone"}) =>
    \A k \in 1 .. Len(cidrRanges) :
      /\ Cardinality({w \in Workers : Entered(w, k)}) <= 1
      /\ (pc = "parDone" /\ ~ctxDone) =>
            Cardinality({w \in Workers : Entered(w, k)}) = 1

\* ======================================= properties, interval tree
\* the nodes of the subtree rooted at n
RECURSIVE Subtree(_, _)
Subtree(nodes, n) ==
  IF n = Nil THEN {}
  ELSE {n} \cup Subtree(nodes, nodes[n].left) \cup Subtree(nodes, nodes[n].right)

Overlaps(a, b) == a.start <= b.end /\ b.start <= a.end

\* the intervals and links of the nodes, without what their cidr pointers
\* read (which the caller's loop variable decides, not Insert)
Shape(nodes) ==
  [n \in 1 .. Len(nodes) |->
     [start |-> nodes[n].start, end |-> nodes[n].end,
      left |-> nodes[n].left, right |-> nodes[n].right]]

\* C22: after any sequence of Insert calls, accepted or rejected, the tree
\* is a search tree over disjoint intervals: every node is linked under the
\* root, every interval in a node's left subtree ends below the node's start,
\* every interval in its right subtree starts above the node's end, and the
\* stored intervals are pairwise disjoint.
C22_ValidSearchTree ==
  /\ tree # << >> => Subtree(tree, 1) = 1 .. Len(tree)
  /\ \A n \in 1 .. Len(tree) :
        /\ \A m \in Subtree(tree, tree[n].left) : tree[m].end < tree[n].start
        /\ \A m \in Subtree(tree, tree[n].right) : tree[m].start > tree[n].end
  /\ \A n, m \in 1 .. Len(tree) : n # m => ~Overlaps(tree[n], tree[m])

\* C22 witness: MaxTreeRanges Insert calls of which one in the middle was
\* rejected and the last accepted, below a child of the root
C22_Witness ==
  /\ lastInsert.k = MaxTreeRanges /\ ~lastInsert.err
  /\ Len(tree) = MaxTreeRanges - 1
  /\ tree[1].left # Nil

\* C23: Insert returns an error exactly when the new interval shares an
\* address with an interval stored anywhere in the tree; a rejected Insert
\* leaves the tree unchanged; an accepted one adds the interval, and every
\* address of every stored interval, old and new, is found by Search with
\* the range it belongs to.
C23_InsertStep ==
  (lastInsert'.k = lastInsert.k + 1) =>
    LET r == cidrRanges[lastInsert'.k]
    IN  /\ lastInsert'.err <=> \E n \in 1 .. Len(tree) : Overlaps(r, tree[n])
        /\ lastInsert'.err => Shape(tree') = Shape(tree)
        /\ ~lastInsert'.err =>
              /\ Len(tree') = Len(tree) + 1
              /\ \E n \in 1 .. Len(tree') : tree'[n].start = r.start /\ tree'[n].end = r.end
              /\ \A n \in 1 .. Len(tree) :
                    \E m \in 1 .. Len(tree') :
                       tree'[m].start = tree[n].start /\ tree'[m].end = tree[n].end
              /\ \A ip \in Addrs :
                    TreeSearch(tree', ip) # << >> <=>
                      (TreeSearch(tree, ip) # << >> \/ (r.start <= ip /\ ip <= r.end))

C23_InsertErrorExact == [][C23_InsertStep]_vars

\* C23 witness: the last Insert was rejected because of an interval stored
\* in a child node, the new interval being clear of the root
C23_Witness ==
  /\ lastInsert.k = MaxTreeRanges /\ lastInsert.err
  /\ Len(tree) = MaxTreeRanges - 1
  /\ ~Overlaps(cidrRanges[lastInsert.k], tree[1])
  /\ Overlaps(cidrRanges[lastInsert.k], tree[2])

\* C27: after buildIntervalTree over two or more disjoint ranges every node
\* is tagged with its own range (n.cidr.start = n.start, n.cidr.end = n.end),
\* so Search(x) returns the range that contains x.
C27_NodesTaggedWithOwnRange ==
  (lastInsert.k = Len(cidrRanges) /\ Len(cidrRanges) >= 2 /\ Disjoint(cidrRanges)) =>
    /\ \A n \in 1 .. Len(tree) :
          tree[n].cidr.start = tree[n].start /\ tree[n].cidr.end = tree[n].end
    /\ \A ip \in Addrs :
          TreeSearch(tree, ip) # << >> =>
            (TreeSearch(tree, ip)[1].start <= ip /\ ip <= TreeSearch(tree, ip)[1].end)

\* ============================= properties, lookup structure and slice
\* the lookup structure of the chosen algorithm is complete
LookupBuilt ==
  IF algorithm = "interval-tree"
  THEN Shape(tree) = Shape(buildIntervalTree(cidrRanges))
  ELSE cidrRanges = SortByStart(cidrRanges)

\* C24 (step part and whole): the lookup structure is completely built
\* before the first worker starts (the steps that change the tree or the
\* slice happen with no worker started), and from the first worker's start
\* until ipChan is closed no step changes the tree or the range slice.
C24_ReadOnlyStep ==
  /\ (tree' # tree \/ cidrRanges' # cidrRanges) => (started = 0 /\ started' = 0)
  /\ (started > 0 /\ ~ipChanClosed) => (tree' = tree /\ cidrRanges' = cidrRanges)

C24_BuiltThenReadOnly ==
  /\ []((parallel /\ started > 0) => LookupBuilt)
  /\ [][C24_ReadOnlyStep]_vars

\* C24 witness: every worker is started, one is inside a range, ipChan is
\* open, and the tree built from a list given out of order has two nodes
C24_Witness ==
  /\ started = MaxWorkers /\ ~ipChanClosed
  /\ algorithm = "interval-tree" /\ Len(tree) = 2
  /\ cidrRanges[1].start > cidrRanges[2].start
  /\ \E w \in Workers : wk[w].pc = "loop"

\* C28: the binary-search lookup of sequential mode never misses a contained
\* address, also for overlapping or nested ranges: when the sequential
\* expansion has returned, every address some input range contains is in
\* the output.
C28_NoContainedAddressMissed ==
  (~parallel /\ pc = "done") => ExpectedIPs(cidrRanges) \subseteq Range(ips)

\* C29: neither expansion mode changes the caller's range sequence: from the
\* call on, the slice main passed holds the ranges parseCIDRList returned, in
\* the same order.
C29_CallerSliceUnchanged ==
  pc \in {"spawn", "collect", "checkErr", "parDone", "seqLoop", "done"} =>
     cidrRanges = parseCIDRList(cidrList)

\* ======================================= properties, legacy (continued)
\* C25: in the legacy interval tree, inserting an interval that shares an
\* address with an interval already in the tree always panics, boundary
\* addresses and equal single-address intervals included: once the build
\* loop of cidrToIPsParallelIntervalTree is over, a list in which two ranges
\* share an address has ended in the overlap panic.
C25_LegacyOverlapPanics ==
  (parallel /\ algorithm = "interval-tree" /\ concurrency >= 0
     /\ pc \notin {"legParse", "legCall"} /\ ~Disjoint(cidrRanges)) =>
    pc = "legPanicOverlap"

\* C26: in the legacy pooled pipeline every string the collector appends is
\* exactly the dotted-decimal text of an address: no padding bytes and no
\* characters left from an earlier use of the buffer.
C26_ExactAddressText ==
  /\ pc = "legCollect" =>
        \A k \in 1 .. Len(ips) : \E a \in Addrs : ips[k] = IPString(uint2ip(a))
  /\ ret.returned =>
        \A k \in 1 .. Len(ret.ips) : \E a \in Addrs : ret.ips[k] = IPString(uint2ip(a))

====
